---- MODULE Spec2Model ----
(***************************************************************************)
(* Model of the clicom-mex backend: the process-wide station cache         *)
(* (store.STATION_DATA), the CSV loader, the date filter, the six          *)
(* aggregation modes, the daily percentiles and the extreme-event          *)
(* frequency, as written in backend/app/data_loader.py and                 *)
(* backend/app/estaciones.py.                                              *)
(*                                                                         *)
(* Numbers are fixed point: an integer v stands for v/1000, so that a raw  *)
(* observation can carry three decimals while results are rounded to two.  *)
(* An unrounded intermediate is a fraction <<num, den>>; den = 0 is NaN.   *)
(***************************************************************************)
EXTENDS Integers, Sequences, FiniteSets, TLC

\* ------------------------------------------------------------------ bounds
NumYears == 2
MaxRows == 3
MaxLoads == 2

\* --------------------------------------------------------------- constants
Null == -1                         \* NaN / None cell
Bad == -2                          \* a cell holding text that is not a number
NaT == 0                           \* a Fecha that does not parse
NoDate == 0                        \* an absent (None or empty) date bound

StationIds == {"s1", "s2"}
Years == {2000 + i : i \in 0 .. (NumYears - 1)}
MonthDays == {<<1, 1>>, <<3, 1>>, <<3, 2>>, <<12, 1>>}
SUM_VARS == {"PRECIP", "EVAP"}
season_order == <<"Primavera", "Verano", "Otono", "Invierno">>

\* --------------------------------------------------------------- calendar
MkDate(y, m, d) == y * 10000 + m * 100 + d
YearOf(f) == f \div 10000
MonthOf(f) == (f \div 100) % 100
DayOf(f) == f % 100

DaysIn(y, m) ==
    IF m \in {4, 6, 9, 11} THEN 30
    ELSE IF m = 2 THEN (IF (y % 4 = 0 /\ y % 100 # 0) \/ y % 400 = 0 THEN 29 ELSE 28)
    ELSE 31

\* pd.to_datetime(text, format='%d/%m/%Y', errors='coerce'): the text of a file
\* row is <<day, month, year>>; anything that is no calendar day becomes NaT.
ParseFecha(t) ==
    IF Len(t) = 3 /\ t[3] \in 1678 .. 2261 /\ t[2] \in 1 .. 12
       /\ t[1] >= 1 /\ t[1] <= DaysIn(t[3], t[2])
    THEN MkDate(t[3], t[2], t[1])
    ELSE NaT

\* strftime('%d/%m/%Y') of a date, as the <<day, month, year>> text
FormatFecha(f) == <<DayOf(f), MonthOf(f), YearOf(f)>>

seasons(m) ==
    IF m \in {12, 1, 2} THEN "Invierno"
    ELSE IF m \in {3, 4, 5} THEN "Primavera"
    ELSE IF m \in {6, 7, 8} THEN "Verano"
    ELSE "Otono"

\* rank of a season name in the lexical order groupby sorts its keys by
SeasonLex(s) ==
    CASE s = "Invierno" -> 1 [] s = "Otono" -> 2 [] s = "Primavera" -> 3 [] OTHER -> 4

\* a Categorical that ranks the seasons by name
SeasonCat_by_name(s) == SeasonLex(s)

\* rank of a season name in the ordered Categorical built from season_order
SeasonCat(s) == CHOOSE i \in 1 .. Len(season_order) : season_order[i] = s

\* ------------------------------------------------------------- arithmetic
RECURSIVE SumOver(_, _)
SumOver(f, S) ==
    IF S = {} THEN 0
    ELSE LET x == CHOOSE y \in S : TRUE IN f[x] + SumOver(f, S \ {x})

\* round half to even of num/den (num >= 0, den > 0), as numpy rounds
RoundHalfEven(num, den) ==
    LET q == num \div den
        r == num % den
    IN  IF 2 * r < den THEN q
        ELSE IF 2 * r > den THEN q + 1
        ELSE IF q % 2 = 0 THEN q ELSE q + 1

\* DataFrame.round(2).replace({np.nan: None}) of one value
Round2(x) == IF x[2] = 0 THEN Null ELSE 10 * RoundHalfEven(x[1], x[2] * 10)

IsNum(v) == v >= 0

\* ------------------------------------------------------------ CSV loader
\* A backing file: kind "missing" (no dia*<id>.csv), "nofecha" (no Fecha
\* column), "corrupt" (read_csv or a later step raises) or "csv"; cols are the
\* columns other than Fecha, a row is [Fecha |-> text, v |-> cells by column].
\* A cell is a number, Null, or Bad; read_csv types a column holding a Bad cell
\* as object, and then every non-null cell of it is text.

RECURSIVE InsertByFecha(_, _)
InsertByFecha(sorted, r) ==
    IF sorted = <<>> THEN <<r>>
    ELSE IF sorted[Len(sorted)].Fecha <= r.Fecha THEN Append(sorted, r)
    ELSE Append(InsertByFecha(SubSeq(sorted, 1, Len(sorted) - 1), r), sorted[Len(sorted)])

\* a loader that keeps the file's row order
SortByFecha_file_order(rows) == rows

\* df.sort_values(by='Fecha'): order by date, equal dates keep the file's order
RECURSIVE SortByFecha(_)
SortByFecha(rows) ==
    IF rows = <<>> THEN <<>>
    ELSE InsertByFecha(SortByFecha(SubSeq(rows, 1, Len(rows) - 1)), rows[Len(rows)])

ColIndex(cols, c) == CHOOSE j \in 1 .. Len(cols) : cols[j] = c
HasCol(cols, c) == \E j \in 1 .. Len(cols) : cols[j] = c

\* read_csv's dtype: the columns typed object
TextCols(file) ==
    {j \in 1 .. Len(file.cols) : \E i \in 1 .. Len(file.rows) : file.rows[i].v[j] = Bad}

\* .dropna(how="all"): a row with no Fecha text and no cell goes
DropAllEmpty(rows) ==
    SelectSeq(rows, LAMBDA r : ~(r.Fecha = <<>> /\ \A j \in 1 .. Len(r.v) : r.v[j] = Null))

\* to_datetime(..., errors='coerce') then dropna(subset=['Fecha'])
ParseAndDrop(rows) ==
    LET parsed == [i \in 1 .. Len(rows) |-> [Fecha |-> ParseFecha(rows[i].Fecha), v |-> rows[i].v]]
    IN  SelectSeq(parsed, LAMBDA r : r.Fecha # NaT)

\* pd.to_numeric(x, errors='coerce')
ToNumeric(x) == IF IsNum(x) THEN x ELSE Null

\* TProm = ((TMAX + TMIN) / 2).round(2), TRango = (TMAX - TMIN).round(2)
Derive(cols, r) ==
    LET a == ToNumeric(r.v[ColIndex(cols, "TMAX")])
        b == ToNumeric(r.v[ColIndex(cols, "TMIN")])
        base == [j \in 1 .. Len(cols) |->
                    IF cols[j] \in {"TMAX", "TMIN"} THEN ToNumeric(r.v[j]) ELSE r.v[j]]
        both == IsNum(a) /\ IsNum(b)
    IN  [Fecha |-> r.Fecha,
         v |-> base \o << IF both THEN Round2(<<a + b, 2>>) ELSE Null,
                          IF both THEN Round2(<<a - b, 1>>) ELSE Null >>]

\* the body of the try block of load_station_data for a readable file
BuildStationData(file, oid) ==
    LET df == SortByFecha(ParseAndDrop(DropAllEmpty(file.rows)))
        derived == HasCol(file.cols, "TMAX") /\ HasCol(file.cols, "TMIN")
        cols == IF derived THEN file.cols \o <<"TProm", "TRango">> ELSE file.cols
        datos == IF derived THEN [i \in 1 .. Len(df) |-> Derive(file.cols, df[i])] ELSE df
        text == {j \in TextCols(file) : ~(derived /\ file.cols[j] \in {"TMAX", "TMIN"})}
    IN  [oid |-> oid,
         variables |-> cols,
         periodo |-> [inicio |-> IF df = <<>> THEN <<>> ELSE FormatFecha(df[1].Fecha),
                      fin |-> IF df = <<>> THEN <<>> ELSE FormatFecha(df[Len(df)].Fecha)],
         text |-> text,
         datos |-> datos]

\* a loader that answers a file without Fecha with an empty series
LoadOutcome_empty_on_nofecha(file, oid) ==
    IF file.kind = "missing" THEN [ok |-> FALSE, why |-> "nofile"]
    ELSE IF file.kind = "corrupt" THEN [ok |-> FALSE, why |-> "exception"]
    ELSE [ok |-> TRUE, data |-> BuildStationData(file, oid)]

\* what load_station_data returns: "none" (with nothing stored) or the data
LoadOutcome(file, oid) ==
    IF file.kind = "missing" THEN [ok |-> FALSE, why |-> "nofile"]
    ELSE IF file.kind = "corrupt" THEN [ok |-> FALSE, why |-> "exception"]
    ELSE IF file.kind = "nofecha" THEN [ok |-> FALSE, why |-> "nofecha"]
    ELSE [ok |-> TRUE, data |-> BuildStationData(file, oid)]

\* ------------------------------------------------------------ date filter
\* a filter whose lower bound is exclusive
filter_data_by_date_exclusive(df, start_date, end_date) ==
    IF df = <<>> THEN df
    ELSE LET a == IF start_date # NoDate
                  THEN SelectSeq(df, LAMBDA r : r.Fecha > start_date) ELSE df
         IN  IF end_date # NoDate THEN SelectSeq(a, LAMBDA r : r.Fecha <= end_date) ELSE a

\* filter_data_by_date on the rows of a DataFrame; NoDate is a falsy bound
filter_data_by_date(df, start_date, end_date) ==
    IF df = <<>> THEN df
    ELSE LET a == IF start_date # NoDate
                  THEN SelectSeq(df, LAMBDA r : r.Fecha >= start_date) ELSE df
         IN  IF end_date # NoDate THEN SelectSeq(a, LAMBDA r : r.Fecha <= end_date) ELSE a

\* df.select_dtypes(include=np.number) of pd.DataFrame(datos): the columns
\* none of whose cells is text
NumericCols(sd) ==
    LET num == {j \in 1 .. Len(sd.variables) :
                   j \notin sd.text \/ \A i \in 1 .. Len(sd.datos) : sd.datos[i].v[j] = Null}
    IN  SelectSeq([j \in 1 .. Len(sd.variables) |-> j], LAMBDA j : j \in num)


Names(sd, nc) == [i \in 1 .. Len(nc) |-> sd.variables[nc[i]]]

\* ------------------------------------------------------- group and reduce
\* the distinct values of a set of integer keys in ascending order, as
\* groupby (sort=True) and sort_values emit them
RECURSIVE SortedKeys(_)
SortedKeys(S) ==
    IF S = {} THEN <<>>
    ELSE LET m == CHOOSE x \in S : \A y \in S : x <= y
         IN  <<m>> \o SortedKeys(S \ {m})

\* the rows of df whose key is k
GroupOf(df, Key(_), k) == {i \in 1 .. Len(df) : Key(df[i]) = k}

\* a 'sum' that is NaN when no cell holds a value (min_count=1)
AggSum_nan_without_values(df, j, I) ==
    <<SumOver([i \in I |-> IF IsNum(df[i].v[j]) THEN df[i].v[j] ELSE 0], I),
      IF \E i \in I : IsNum(df[i].v[j]) THEN 1 ELSE 0>>

\* pandas 'sum' of column j over rows I: NaN cells are skipped, no cell gives 0
AggSum(df, j, I) ==
    <<SumOver([i \in I |-> IF IsNum(df[i].v[j]) THEN df[i].v[j] ELSE 0], I), 1>>

\* pandas 'mean' of column j over rows I: NaN cells are skipped, no cell gives NaN
AggMean(df, j, I) ==
    <<SumOver([i \in I |-> IF IsNum(df[i].v[j]) THEN df[i].v[j] ELSE 0], I),
      Cardinality({i \in I : IsNum(df[i].v[j])})>>

\* a map that forgets EVAP among the summed variables
get_aggregation_map_precip_only(col) == IF col = "PRECIP" THEN "sum" ELSE "mean"

\* get_aggregation_map: 'sum' for PRECIP and EVAP, 'mean' for the rest
get_aggregation_map(col) == IF col \in SUM_VARS THEN "sum" ELSE "mean"

\* the annual cycle's map without its override
annual_cycle_map_no_override(col) == get_aggregation_map(col)

\* calculate_annual_cycle's map: get_aggregation_map with PRECIP and EVAP forced to 'mean'
annual_cycle_map(col) ==
    IF col = "PRECIP" \/ col = "EVAP" THEN "mean" ELSE get_aggregation_map(col)

Agg(how, df, j, I) == IF how = "sum" THEN AggSum(df, j, I) ELSE AggMean(df, j, I)

\* one group's unrounded values, by numeric column, under the map How
GroupValues(sd, nc, df, I, How(_)) ==
    [n \in 1 .. Len(nc) |-> Agg(How(sd.variables[nc[n]]), df, nc[n], I)]

RoundAll(vals) == [n \in 1 .. Len(vals) |-> Round2(vals[n])]

\* mean of a set of fractions, NaN ones skipped (the second pass of the cycles)
RECURSIVE FracSum(_, _)
FracSum(f, S) ==
    IF S = {} THEN <<0, 1>>
    ELSE LET x == CHOOSE y \in S : TRUE
             rest == FracSum(f, S \ {x})
         IN  <<f[x][1] * rest[2] + rest[1] * f[x][2], f[x][2] * rest[2]>>

FracMean(f, S) ==
    LET ok == {x \in S : f[x][2] # 0}
        t == FracSum(f, ok)
    IN  IF ok = {} THEN <<0, 0>> ELSE <<t[1], t[2] * Cardinality(ok)>>

\* ---------------------------------------------------------- group keys
DayKey(r) == MonthOf(r.Fecha) * 100 + DayOf(r.Fecha)
MonthPeriodKey(r) == YearOf(r.Fecha) * 100 + MonthOf(r.Fecha)
YearKey(r) == YearOf(r.Fecha)
MonthKey(r) == MonthOf(r.Fecha)
\* (Year, Season) in the order of groupby: by year, then by season name
YearSeasonKey(r) == YearOf(r.Fecha) * 10 + SeasonLex(seasons(MonthOf(r.Fecha)))
SeasonKey(r) == SeasonLex(seasons(MonthOf(r.Fecha)))
SeasonName(k) == CHOOSE s \in {"Invierno", "Otono", "Primavera", "Verano"} : SeasonLex(s) = k


\* -------------------------------------------------- the six aggregations
\* Each operator is the function of the same name after the station's data
\* were obtained: sd is station_full_data.
AggResult(vars, datos) == [kind |-> "ok", variables |-> vars, datos |-> datos]

AnnualCycleRows(sd, nc, df) ==
    LET keys == SortedKeys({DayKey(df[i]) : i \in 1 .. Len(df)})
    IN  [g \in 1 .. Len(keys) |->
            [month |-> keys[g] \div 100, day |-> keys[g] % 100,
             v |-> RoundAll(GroupValues(sd, nc, df, GroupOf(df, DayKey, keys[g]),
                                        annual_cycle_map)),
             dia_mes |-> <<keys[g] % 100, keys[g] \div 100>>]]

calculate_annual_cycle(sd, start_date, end_date) ==
    IF sd.datos = <<>> THEN AggResult(sd.variables, <<>>)
    ELSE LET nc == NumericCols(sd)
             df == filter_data_by_date(sd.datos, start_date, end_date)
         IN  IF df = <<>> THEN AggResult(Names(sd, nc), <<>>)
             ELSE AggResult(Names(sd, nc), AnnualCycleRows(sd, nc, df))

MonthlyRows(sd, nc, df) ==
    LET keys == SortedKeys({MonthPeriodKey(df[i]) : i \in 1 .. Len(df)})
    IN  [g \in 1 .. Len(keys) |->
            [Fecha |-> <<keys[g] \div 100, keys[g] % 100>>,
             v |-> RoundAll(GroupValues(sd, nc, df, GroupOf(df, MonthPeriodKey, keys[g]),
                                        get_aggregation_map))]]

calculate_monthly_average(sd, start_date, end_date) ==
    IF sd.datos = <<>> THEN AggResult(sd.variables, <<>>)
    ELSE LET nc == NumericCols(sd)
             df == filter_data_by_date(sd.datos, start_date, end_date)
         IN  IF df = <<>> THEN AggResult(Names(sd, nc), <<>>)
             ELSE AggResult(Names(sd, nc), MonthlyRows(sd, nc, df))

YearlyRows(sd, nc, df) ==
    LET keys == SortedKeys({YearKey(df[i]) : i \in 1 .. Len(df)})
    IN  [g \in 1 .. Len(keys) |->
            [Fecha |-> <<keys[g]>>,
             v |-> RoundAll(GroupValues(sd, nc, df, GroupOf(df, YearKey, keys[g]),
                                        get_aggregation_map))]]

calculate_yearly_average(sd, start_date, end_date) ==
    IF sd.datos = <<>> THEN AggResult(sd.variables, <<>>)
    ELSE LET nc == NumericCols(sd)
             df == filter_data_by_date(sd.datos, start_date, end_date)
         IN  IF df = <<>> THEN AggResult(Names(sd, nc), <<>>)
             ELSE AggResult(Names(sd, nc), YearlyRows(sd, nc, df))

\* the monthly cycle reduced in one pass by Month, every year's days pooled
MonthlyCycleRows_one_pass(sd, nc, df) ==
    LET months == SortedKeys({MonthKey(df[i]) : i \in 1 .. Len(df)})
    IN  [g \in 1 .. Len(months) |->
            [Mes |-> months[g],
             v |-> RoundAll(GroupValues(sd, nc, df, GroupOf(df, MonthKey, months[g]),
                                        get_aggregation_map))]]

\* step 1 by (Year, Month) with sum/mean, step 2 the mean of those by Month
MonthlyCycleRows(sd, nc, df) ==
    LET ym == {MonthPeriodKey(df[i]) : i \in 1 .. Len(df)}
        yearly_monthly == [k \in ym |->
            GroupValues(sd, nc, df, GroupOf(df, MonthPeriodKey, k), get_aggregation_map)]
        months == SortedKeys({k % 100 : k \in ym})
    IN  [g \in 1 .. Len(months) |->
            [Mes |-> months[g],
             v |-> RoundAll([n \in 1 .. Len(nc) |->
                      FracMean([k \in ym |-> yearly_monthly[k][n]],
                               {k \in ym : k % 100 = months[g]})])]]

calculate_monthly_annual_cycle(sd, start_date, end_date) ==
    IF sd.datos = <<>> THEN AggResult(sd.variables, <<>>)
    ELSE LET nc == NumericCols(sd)
             df == filter_data_by_date(sd.datos, start_date, end_date)
         IN  IF df = <<>> THEN AggResult(Names(sd, nc), <<>>)
             ELSE AggResult(Names(sd, nc), MonthlyCycleRows(sd, nc, df))

\* groupby(['Year', 'Season']), then sort_values(['Year', 'Season']) with Season
\* an ordered Categorical over season_order
SeasonalRows(sd, nc, df) ==
    LET keys == SortedKeys({YearSeasonKey(df[i]) : i \in 1 .. Len(df)})
        grouped == [g \in 1 .. Len(keys) |->
            [Year |-> keys[g] \div 10, Season |-> SeasonName(keys[g] % 10),
             v |-> RoundAll(GroupValues(sd, nc, df, GroupOf(df, YearSeasonKey, keys[g]),
                                        get_aggregation_map)),
             Fecha |-> <<SeasonName(keys[g] % 10), keys[g] \div 10>>]]
        rank == [g \in 1 .. Len(keys) |-> grouped[g].Year * 10 + SeasonCat(grouped[g].Season)]
        order == SortedKeys({rank[g] : g \in 1 .. Len(keys)})
    IN  [p \in 1 .. Len(keys) |-> grouped[CHOOSE g \in 1 .. Len(keys) : rank[g] = order[p]]]

calculate_seasonal_average(sd, start_date, end_date) ==
    IF sd.datos = <<>> THEN AggResult(sd.variables, <<>>)
    ELSE LET nc == NumericCols(sd)
             df == filter_data_by_date(sd.datos, start_date, end_date)
         IN  IF df = <<>> THEN AggResult(Names(sd, nc), <<>>)
             ELSE AggResult(Names(sd, nc), SeasonalRows(sd, nc, df))

\* step 1 by (Year, Season), step 2 the mean of those by Season; the rows stay
\* in groupby's order (the Categorical is assigned, the frame is not sorted)
SeasonalCycleRows(sd, nc, df) ==
    LET ys == {YearSeasonKey(df[i]) : i \in 1 .. Len(df)}
        yearly_seasonal == [k \in ys |->
            GroupValues(sd, nc, df, GroupOf(df, YearSeasonKey, k), get_aggregation_map)]
        ss == SortedKeys({k % 10 : k \in ys})
    IN  [g \in 1 .. Len(ss) |->
            [Season |-> SeasonName(ss[g]),
             v |-> RoundAll([n \in 1 .. Len(nc) |->
                      FracMean([k \in ys |-> yearly_seasonal[k][n]],
                               {k \in ys : k % 10 = ss[g]})])]]

\* a seasonal cycle that reports no data when the range holds no record
calculate_seasonal_cycle_none_on_empty(sd, start_date, end_date) ==
    IF sd.datos = <<>> THEN AggResult(sd.variables, <<>>)
    ELSE LET nc == NumericCols(sd)
             df == filter_data_by_date(sd.datos, start_date, end_date)
         IN  IF df = <<>> THEN [kind |-> "none"]
             ELSE AggResult(Names(sd, nc), SeasonalCycleRows(sd, nc, df))

calculate_seasonal_cycle(sd, start_date, end_date) ==
    IF sd.datos = <<>> THEN AggResult(sd.variables, <<>>)
    ELSE LET nc == NumericCols(sd)
             df == filter_data_by_date(sd.datos, start_date, end_date)
         IN  IF df = <<>> THEN AggResult(Names(sd, nc), <<>>)
             ELSE AggResult(Names(sd, nc), SeasonalCycleRows(sd, nc, df))


\* ------------------------------------------------------ daily percentiles
EmptyResult == [kind |-> "ok", variables |-> <<>>, datos |-> <<>>]
Raised(exc) == [kind |-> "raise", exc |-> exc]

\* to_numeric(errors='coerce') on the variable, then dropna(subset=[variable])
CoerceAndDrop(df, j) ==
    SelectSeq([i \in 1 .. Len(df) |-> [Fecha |-> df[i].Fecha, x |-> ToNumeric(df[i].v[j])]],
              LAMBDA r : r.x # Null)

\* the values x of the rows I of df in ascending order
RECURSIVE SortedVals(_, _)
SortedVals(df, I) ==
    IF I = {} THEN <<>>
    ELSE LET m == CHOOSE i \in I : \A k \in I : df[i].x <= df[k].x
         IN  <<df[m].x>> \o SortedVals(df, I \ {m})

\* Series.quantile(percentile / 100.0): linear interpolation between the order
\* statistics around position (n - 1) * q
Quantile(xs, percentile) ==
    LET h == (Len(xs) - 1) * percentile
        lo == h \div 100 + 1
        rem == h % 100
        hi == IF lo < Len(xs) THEN lo + 1 ELSE lo
    IN  <<xs[lo] * 100 + rem * (xs[hi] - xs[lo]), 100>>

PercentileRows(df, percentile) ==
    LET keys == SortedKeys({DayKey(df[i]) : i \in 1 .. Len(df)})
    IN  [g \in 1 .. Len(keys) |->
            [month |-> keys[g] \div 100, day |-> keys[g] % 100,
             p |-> Round2(Quantile(SortedVals(df, GroupOf(df, DayKey, keys[g])), percentile)),
             dia_mes |-> <<keys[g] % 100, keys[g] \div 100>>]]

\* calculate_daily_percentiles after the station's data were obtained. With no
\* row left after dropna the grouped frame is empty, apply(axis=1) hands back
\* that frame, and assigning it to the single column 'dia_mes' raises ValueError.
calculate_daily_percentiles(sd, variable, percentile, start_date, end_date) ==
    IF sd.datos = <<>> \/ ~HasCol(sd.variables, variable) THEN EmptyResult
    ELSE LET filtered == filter_data_by_date(sd.datos, start_date, end_date)
             df == CoerceAndDrop(filtered, ColIndex(sd.variables, variable))
         IN  IF filtered = <<>> THEN EmptyResult
             ELSE IF df = <<>> THEN Raised("ValueError")
             ELSE [kind |-> "ok", variables |-> << <<"p", percentile>> >>,
                   datos |-> PercentileRows(df, percentile)]

\* --------------------------------------------------- extreme frequencies
Threshold(percentile_df, r) ==
    LET g == CHOOSE g \in 1 .. Len(percentile_df) :
                 percentile_df[g].month = MonthOf(r.Fecha) /\ percentile_df[g].day = DayOf(r.Fecha)
    IN  percentile_df[g].p

\* a comparison that also counts a value equal to its threshold
is_extreme_inclusive(operator, x, threshold) ==
    IF operator = "greater" THEN x >= threshold ELSE x <= threshold

is_extreme(operator, x, threshold) ==
    IF operator = "greater" THEN x > threshold ELSE x < threshold

FrequencyRows(df, percentile_df, operator) ==
    LET years == SortedKeys({YearKey(df[i]) : i \in 1 .. Len(df)})
    IN  [g \in 1 .. Len(years) |->
            [Fecha |-> years[g],
             frequency |-> Cardinality({i \in GroupOf(df, YearKey, years[g]) :
                               is_extreme(operator, df[i].x, Threshold(percentile_df, df[i]))})]]

\* linregress(x, y).slope over the frequency rows, as a fraction
Slope(freq) ==
    LET I == 1 .. Len(freq)
        n == Len(freq)
        sx == SumOver([i \in I |-> freq[i].Fecha], I)
        sy == SumOver([i \in I |-> freq[i].frequency], I)
        sxy == SumOver([i \in I |-> freq[i].Fecha * freq[i].frequency], I)
        sxx == SumOver([i \in I |-> freq[i].Fecha * freq[i].Fecha], I)
    IN  <<n * sxy - sx * sy, n * sxx - sx * sx>>

\* step 7: the trend, {} unless there are at least two frequency rows
trend_data(freq) ==
    IF Len(freq) > 1
    THEN [slope |-> Slope(freq), trend_line_points |-> Len(freq)]
    ELSE <<>>

\* calculate_extreme_event_frequency from step 2 on: percentiles_data is what
\* calculate_daily_percentiles returned (no data, or a result), sd the cached data
extreme_event_frequency(percentiles_data, sd, variable, operator, start_date, end_date) ==
    IF percentiles_data.kind = "none" \/ percentiles_data.datos = <<>> THEN EmptyResult
    ELSE LET filtered == filter_data_by_date(sd.datos, start_date, end_date)
         IN  IF filtered = <<>> \/ ~HasCol(sd.variables, variable) THEN EmptyResult
             ELSE IF operator \notin {"greater", "less"} THEN Raised("ValueError")
             ELSE LET df == CoerceAndDrop(filtered, ColIndex(sd.variables, variable))
                      freq == FrequencyRows(df, percentiles_data.datos, operator)
                  IN  [kind |-> "ok", variables |-> <<"frequency">>, datos |-> freq,
                       trend |-> trend_data(freq)]


\* ------------------------------------------------------------------ state
VARIABLES
    files,          \* the CSV directory: station id -> backing file
    STATION_DATA,   \* store.STATION_DATA: station id -> station_data, loaded ids only
    loads,          \* station id -> runs of load_station_data so far (its first log line)
    stored,         \* station id -> the objects stored under it, in order (line 108)
    heap,           \* station_data objects built so far; the next one is heap + 1
    req,            \* the last request served
    resp,           \* its response
    th              \* the worker threads of the concurrent specification

vars == <<files, STATION_DATA, loads, stored, heap, req, resp, th>>

Threads == {"t1", "t2"}

\* ----------------------------------------------------------- request inputs
D1 == MkDate(2000, 3, 2)
D2 == MkDate(2000, 12, 1)
StartDates == {NoDate, D2}
EndDates == {NoDate, D1}
VarNames == {"PRECIP", "TMAX"}
Percentiles == {-1, 0, 50, 100, 101}
Operators == {"greater", "less", "equal"}

NoReq == [op |-> "", id |-> "", start |-> NoDate, end |-> NoDate,
          variable |-> "", percentile |-> 0, operator |-> ""]
Req(op, id, s, e) == [NoReq EXCEPT !.op = op, !.id = id, !.start = s, !.end = e]
NoResp == [kind |-> "idle"]
None == [kind |-> "none"]
Http(status) == [kind |-> "http", status |-> status]
IdleThreads == [t \in Threads |-> [pc |-> "idle", id |-> "", miss |-> FALSE, full_data |-> 0]]

\* --------------------------------------------------------- get-or-load
\* store.STATION_DATA.get(id), and load_station_data(id) when that is None
Lookup(id) ==
    IF id \in DOMAIN STATION_DATA THEN [ok |-> TRUE, data |-> STATION_DATA[id]]
    ELSE LoadOutcome(files[id], heap + 1)

\* a store that keeps the entry already there (dict.setdefault)
StoreEntry_keep_first(cache, id, data) ==
    [k \in DOMAIN cache \cup {id} |-> IF k \in DOMAIN cache THEN cache[k] ELSE data]

\* line 108: store.STATION_DATA[station_id] = station_data
StoreEntry(cache, id, data) ==
    [k \in DOMAIN cache \cup {id} |-> IF k = id THEN data ELSE cache[k]]

\* a get-or-load that runs the loader and stores again on a hit
Commit_reload(id, out) ==
    /\ loads' = [loads EXCEPT ![id] = @ + 1]
    /\ IF out.ok
       THEN /\ STATION_DATA' = StoreEntry(STATION_DATA, id, out.data)
            /\ stored' = [stored EXCEPT ![id] = Append(@, out.data.oid)]
            /\ heap' = heap + 1
       ELSE UNCHANGED <<STATION_DATA, stored, heap>>

\* the cache, the log and the heap after Lookup(id) gave out
Commit(id, out) ==
    IF id \in DOMAIN STATION_DATA
    THEN UNCHANGED <<STATION_DATA, loads, stored, heap>>
    ELSE     /\ loads' = [loads EXCEPT ![id] = @ + 1]
             /\ IF out.ok
                THEN /\ STATION_DATA' = StoreEntry(STATION_DATA, id, out.data)
                     /\ stored' = [stored EXCEPT ![id] = Append(@, out.data.oid)]
                     /\ heap' = heap + 1
                ELSE UNCHANGED <<STATION_DATA, stored, heap>>

\* requests are served one at a time; the model stops counting loader runs at
\* MaxLoads
CanServe(id) ==
    /\ resp = NoResp
    /\ id \in DOMAIN STATION_DATA \/ loads[id] < MaxLoads

\* ------------------------------------------------------------- handlers
\* GET /estaciones/{id}/datos
DatosBody(sd, start_date, end_date) ==
    IF sd.datos = <<>> THEN Raised("KeyError")
    ELSE LET f == filter_data_by_date(sd.datos, start_date, end_date)
         IN  [kind |-> "ok", variables |-> sd.variables,
              periodo |-> [inicio |-> IF f = <<>> THEN <<>> ELSE FormatFecha(f[1].Fecha),
                           fin |-> IF f = <<>> THEN <<>> ELSE FormatFecha(f[Len(f)].Fecha)],
              datos |-> [i \in 1 .. Len(f) |->
                            [Fecha |-> FormatFecha(f[i].Fecha), v |-> f[i].v]]]

datos_estacion_estado ==
    \E id \in DOMAIN files, s \in StartDates, e \in EndDates :
        /\ CanServe(id)
        /\ \E full_data \in {Lookup(id)} :
              /\ Commit(id, full_data)
              /\ resp' = (IF full_data.ok THEN DatosBody(full_data.data, s, e) ELSE Http(404))
        /\ req' = Req("datos", id, s, e)
        /\ UNCHANGED <<files, th>>

\* a route that returns calculate_<mode>(id, start_date, end_date)
AggRoute(op, Calc(_, _, _)) ==
    \E id \in DOMAIN files, s \in StartDates, e \in EndDates :
        /\ CanServe(id)
        /\ \E station_full_data \in {Lookup(id)} :
              /\ Commit(id, station_full_data)
              /\ resp' = (IF station_full_data.ok
                          THEN Calc(station_full_data.data, s, e) ELSE None)
        /\ req' = Req(op, id, s, e)
        /\ UNCHANGED <<files, th>>

obtener_ciclo_anual == AggRoute("ciclo-anual", calculate_annual_cycle)
obtener_promedio_mensual == AggRoute("promedio-mensual", calculate_monthly_average)
obtener_promedio_anual == AggRoute("promedio-anual", calculate_yearly_average)
obtener_ciclo_anual_mensual == AggRoute("ciclo-anual-mensual", calculate_monthly_annual_cycle)
obtener_agregado_estacional == AggRoute("estacional", calculate_seasonal_average)
obtener_ciclo_anual_estacional == AggRoute("ciclo-anual-estacional", calculate_seasonal_cycle)

\* a percentile route that clamps its percentile into 0..100 instead of refusing it
obtener_percentiles_diarios_clamped ==
    \E id \in DOMAIN files, s \in StartDates, e \in EndDates,
       variable \in VarNames, percentil \in Percentiles :
        /\ CanServe(id)
        /\ req' = [Req("percentiles-diarios", id, s, e) EXCEPT
                      !.variable = variable, !.percentile = percentil]
        /\ \E station_full_data \in {Lookup(id)} :
                /\ Commit(id, station_full_data)
                /\ resp' = (IF station_full_data.ok
                            THEN calculate_daily_percentiles(
                                     station_full_data.data, variable,
                                     IF percentil < 0 THEN 0 ELSE IF percentil > 100 THEN 100 ELSE percentil,
                                     s, e)
                            ELSE None)
        /\ UNCHANGED <<files, th>>

\* GET .../percentiles-diarios; Query(ge=0, le=100) answers 422 before the body
obtener_percentiles_diarios ==
    \E id \in DOMAIN files, s \in StartDates, e \in EndDates,
       variable \in VarNames, percentil \in Percentiles :
        /\ CanServe(id)
        /\ req' = [Req("percentiles-diarios", id, s, e) EXCEPT
                      !.variable = variable, !.percentile = percentil]
        /\ IF percentil < 0 \/ percentil > 100
           THEN /\ resp' = Http(422)
                /\ UNCHANGED <<STATION_DATA, loads, stored, heap>>
           ELSE \E station_full_data \in {Lookup(id)} :
                /\ Commit(id, station_full_data)
                /\ resp' = (IF station_full_data.ok
                            THEN calculate_daily_percentiles(station_full_data.data,
                                                             variable, percentil, s, e)
                            ELSE None)
        /\ UNCHANGED <<files, th>>

\* calculate_extreme_event_frequency: step 1 calls calculate_daily_percentiles
\* (which loads on a miss); what it raises propagates
ExtremeBody(out, variable, percentile, operator, start_date, end_date) ==
    LET percentiles_data ==
            IF out.ok
            THEN calculate_daily_percentiles(out.data, variable, percentile, start_date, end_date)
            ELSE None
    IN  IF percentiles_data.kind = "raise" THEN percentiles_data
        ELSE IF ~out.ok THEN EmptyResult
        ELSE extreme_event_frequency(percentiles_data, out.data, variable, operator,
                                     start_date, end_date)

\* an extreme-frequency route without its own operator check, which leaves the
\* operator to calculate_extreme_event_frequency
obtener_frecuencia_eventos_extremos_unchecked ==
    \E id \in DOMAIN files, s \in StartDates, e \in EndDates,
       variable \in VarNames, percentil \in Percentiles, operator \in Operators :
        /\ CanServe(id)
        /\ req' = [Req("extremos-frecuencia", id, s, e) EXCEPT
                      !.variable = variable, !.percentile = percentil, !.operator = operator]
        /\ IF percentil < 0 \/ percentil > 100
           THEN /\ resp' = Http(422)
                /\ UNCHANGED <<STATION_DATA, loads, stored, heap>>
           ELSE \E station_full_data \in {Lookup(id)} :
                /\ Commit(id, station_full_data)
                /\ resp' = ExtremeBody(station_full_data, variable, percentil, operator, s, e)
        /\ UNCHANGED <<files, th>>

\* GET .../extremos/frecuencia
obtener_frecuencia_eventos_extremos ==
    \E id \in DOMAIN files, s \in StartDates, e \in EndDates,
       variable \in VarNames, percentil \in Percentiles, operator \in Operators :
        /\ CanServe(id)
        /\ req' = [Req("extremos-frecuencia", id, s, e) EXCEPT
                      !.variable = variable, !.percentile = percentil, !.operator = operator]
        /\ IF percentil < 0 \/ percentil > 100
           THEN /\ resp' = Http(422)
                /\ UNCHANGED <<STATION_DATA, loads, stored, heap>>
           ELSE IF operator \notin {"greater", "less"}
           THEN /\ resp' = Http(400)
                /\ UNCHANGED <<STATION_DATA, loads, stored, heap>>
           ELSE \E station_full_data \in {Lookup(id)} :
                /\ Commit(id, station_full_data)
                /\ resp' = ExtremeBody(station_full_data, variable, percentil, operator, s, e)
        /\ UNCHANGED <<files, th>>


\* the response leaves through the middleware and the worker is free again
add_security_headers ==
    /\ resp # NoResp
    /\ resp' = NoResp
    /\ req' = NoReq
    /\ UNCHANGED <<files, STATION_DATA, loads, stored, heap, th>>

\* -------------------------------------------------------- backing files
NoFile == [kind |-> "missing", cols |-> <<>>, rows |-> <<>>]
NoFechaFile == [kind |-> "nofecha", cols |-> <<>>, rows |-> <<>>]
CorruptFile == [kind |-> "corrupt", cols |-> <<>>, rows |-> <<>>]
Csv(cols, rows) == [kind |-> "csv", cols |-> cols, rows |-> rows]
Row(t, v) == [Fecha |-> t, v |-> v]

SeqsUpTo(S, n) == UNION {[1 .. k -> S] : k \in 0 .. n}

\* the files of the request-lifecycle specification: every failure kind, and
\* short files in any row order with unparsable and empty rows
LifecycleRows ==
    {Row(<<1, 12, 2000>>, <<1000, 2004>>), Row(<<2, 3, 2000>>, <<2004, Null>>),
     Row(<<31, 2, 2000>>, <<1000, 1000>>), Row(<<1, 1, 2001>>, <<Null, Bad>>),
     Row(<<>>, <<Null, Null>>)}
\* a file whose only row has no calendar day and a text cell: it loads to a
\* series without rows
NoDayTextFile == Csv(<<"PRECIP", "TMAX">>, <<Row(<<31, 2, 2000>>, <<1000, Bad>>)>>)
LifecycleFiles ==
    {NoFile, NoFechaFile, CorruptFile, NoDayTextFile}
        \cup {Csv(<<"PRECIP", "TMAX">>, rows) : rows \in SeqsUpTo(LifecycleRows, MaxRows - 1)}
OtherFiles ==
    {NoFile, Csv(<<"TMAX", "TMIN">>, <<Row(<<1, 1, 2000>>, <<2004, 1000>>)>>)}

\* ------------------------------------------------------- specifications
InitCommon ==
    /\ STATION_DATA = <<>>
    /\ loads = [id \in DOMAIN files |-> 0]
    /\ stored = [id \in DOMAIN files |-> <<>>]
    /\ heap = 0
    /\ req = NoReq
    /\ resp = NoResp
    /\ th = IdleThreads

Init ==
    /\ files \in {f \in [StationIds -> LifecycleFiles \cup OtherFiles] :
                     f["s1"] \in LifecycleFiles /\ f["s2"] \in OtherFiles}
    /\ InitCommon

Next ==
    \/ datos_estacion_estado
    \/ obtener_ciclo_anual
    \/ obtener_promedio_mensual
    \/ obtener_promedio_anual
    \/ obtener_ciclo_anual_mensual
    \/ obtener_agregado_estacional
    \/ obtener_ciclo_anual_estacional
    \/ obtener_percentiles_diarios
    \/ obtener_frecuencia_eventos_extremos
    \/ add_security_headers

Spec == Init /\ [][Next]_vars


\* The files of the aggregation specification: one data column named PRECIP,
\* EVAP or TMAX, every cell a number or empty, up to MaxRows rows on the days
\* MonthDays of the years Years, duplicates of a day included, in date order.
Cells == {Null, 1000, 2004}
DayTexts == {<<md[2], md[1], y>> : md \in MonthDays, y \in Years}
DataRows == {Row(t, <<c>>) : t \in DayTexts, c \in Cells}
RowLeq(a, b) ==
    \/ ParseFecha(a.Fecha) < ParseFecha(b.Fecha)
    \/ ParseFecha(a.Fecha) = ParseFecha(b.Fecha) /\ a.v[1] <= b.v[1]
Ordered(rows) == \A i \in 1 .. Len(rows) - 1 : RowLeq(rows[i], rows[i + 1])
OrderedSeqs(S, n) == {rows \in SeqsUpTo(S, n) : Ordered(rows)}
AggregationFiles ==
    {Csv(<<c>>, rows) : c \in {"PRECIP", "EVAP", "TMAX"}, rows \in OrderedSeqs(DataRows, MaxRows)}

InitAgg ==
    /\ files \in {[id \in {"s1"} |-> f] : f \in AggregationFiles}
    /\ InitCommon

NextAgg ==
    \/ obtener_ciclo_anual
    \/ obtener_promedio_mensual
    \/ obtener_promedio_anual
    \/ obtener_ciclo_anual_mensual
    \/ obtener_agregado_estacional
    \/ obtener_ciclo_anual_estacional
    \/ add_security_headers

SpecAgg == InitAgg /\ [][NextAgg]_vars


\* The files of the extreme-event specification: no file, or one PRECIP column
\* whose cells are numbers, empty or text, up to MaxRows rows on the days
\* ExtremeDays of the years Years, duplicates of a day included, in date order.
ExtremeDays == {<<1, 1>>, <<3, 2>>}
ExtremeRows ==
    {Row(<<md[2], md[1], y>>, <<c>>) : md \in ExtremeDays, y \in Years, c \in Cells \cup {Bad}}
ExtremeFiles ==
    {NoFile} \cup {Csv(<<"PRECIP">>, rows) : rows \in OrderedSeqs(ExtremeRows, MaxRows)}

InitExt ==
    /\ files \in {[id \in {"s1"} |-> f] : f \in ExtremeFiles}
    /\ InitCommon

NextExt ==
    \/ obtener_percentiles_diarios
    \/ obtener_frecuencia_eventos_extremos
    \/ add_security_headers

SpecExt == InitExt /\ [][NextExt]_vars


\* The files of the loader specification: up to MaxRows rows of LifecycleRows
\* in any order, repeated rows included.
LoaderFiles ==
    {NoFechaFile} \cup {Csv(<<"PRECIP", "TMAX">>, rows) : rows \in SeqsUpTo(LifecycleRows, MaxRows)}

InitLoad ==
    /\ files \in {f \in [StationIds -> LoaderFiles \cup OtherFiles] :
                     f["s1"] \in LoaderFiles /\ f["s2"] \in OtherFiles}
    /\ InitCommon

NextLoad ==
    \/ datos_estacion_estado
    \/ add_security_headers

SpecLoad == InitLoad /\ [][NextLoad]_vars


\* ------------------------------------------------- concurrent get-or-load
\* get_station_data(id) on a worker thread of the threadpool, one step per
\* point where another thread can run: the cache read, the loader's reading
\* and building (which allocates the station_data object), its store, the
\* return.  th[t].full_data is the object the thread holds (0: None).
Call(t) ==
    \E id \in DOMAIN files :
        /\ th[t].pc = "idle"
        /\ th' = [th EXCEPT ![t] = [@ EXCEPT !.pc = "get", !.id = id]]
        /\ UNCHANGED <<files, STATION_DATA, loads, stored, heap, req, resp>>

\* estaciones.py line 39: full_data = store.STATION_DATA.get(id)
CacheGet(t) ==
    /\ th[t].pc = "get"
    /\ th' = [th EXCEPT ![t] =
                 IF th[t].id \in DOMAIN STATION_DATA
                 THEN [@ EXCEPT !.pc = "return", !.full_data = STATION_DATA[th[t].id].oid]
                 ELSE [@ EXCEPT !.pc = "load", !.miss = TRUE]]
    /\ UNCHANGED <<files, STATION_DATA, loads, stored, heap, req, resp>>

\* data_loader.py lines 51-106: find the file, read it, build station_data
LoadRead(t) ==
    /\ th[t].pc = "load"
    /\ loads' = [loads EXCEPT ![th[t].id] = @ + 1]
    /\ IF LoadOutcome(files[th[t].id], heap + 1).ok
       THEN /\ heap' = heap + 1
            /\ th' = [th EXCEPT ![t] = [@ EXCEPT !.pc = "store", !.full_data = heap + 1]]
       ELSE /\ heap' = heap
            /\ th' = [th EXCEPT ![t] = [@ EXCEPT !.pc = "http404"]]
    /\ UNCHANGED <<files, STATION_DATA, stored, req, resp>>

\* data_loader.py line 108: store.STATION_DATA[station_id] = station_data
LoadStore(t) ==
    /\ th[t].pc = "store"
    /\ STATION_DATA' = StoreEntry(STATION_DATA, th[t].id,
                                  BuildStationData(files[th[t].id], th[t].full_data))
    /\ stored' = [stored EXCEPT ![th[t].id] = Append(@, th[t].full_data)]
    /\ th' = [th EXCEPT ![t] = [@ EXCEPT !.pc = "return"]]
    /\ UNCHANGED <<files, loads, heap, req, resp>>

\* estaciones.py line 46: return full_data
Return(t) ==
    /\ th[t].pc = "return"
    /\ th' = [th EXCEPT ![t] = [@ EXCEPT !.pc = "done"]]
    /\ UNCHANGED <<files, STATION_DATA, loads, stored, heap, req, resp>>

ConcurrentFiles ==
    {NoFile, NoFechaFile,
     Csv(<<"PRECIP">>, <<Row(<<1, 1, 2000>>, <<1000>>)>>),
     Csv(<<"PRECIP">>, <<Row(<<1, 3, 2000>>, <<2004>>), Row(<<1, 1, 2000>>, <<Null>>)>>)}

InitConc ==
    /\ files \in {f \in [StationIds -> ConcurrentFiles \cup OtherFiles] :
                     f["s1"] \in ConcurrentFiles /\ f["s2"] \in OtherFiles}
    /\ InitCommon

NextConc ==
    \E t \in Threads :
        \/ Call(t)
        \/ CacheGet(t)
        \/ LoadRead(t)
        \/ LoadStore(t)
        \/ Return(t)

SpecConc == InitConc /\ [][NextConc]_vars

\* =================================================================== claims
\* What the claims speak of, stated from the request and the cached series
\* alone: the in-range records, their groups, and the sum and mean of a
\* variable's non-null values.
Served == resp.kind = "ok" /\ req.id \in DOMAIN STATION_DATA
Series == STATION_DATA[req.id].datos
SeriesVars == STATION_DATA[req.id].variables
InRange(f) ==
    /\ req.start = NoDate \/ f >= req.start
    /\ req.end = NoDate \/ f <= req.end
InRangeRecords == {i \in 1 .. Len(Series) : InRange(Series[i].Fecha)}
ColOf(name) == CHOOSE j \in 1 .. Len(SeriesVars) : SeriesVars[j] = name
NonNull(I, name) == {i \in I : Series[i].v[ColOf(name)] >= 0}
Total(I, name) == SumOver([i \in I |-> Series[i].v[ColOf(name)]], NonNull(I, name))
SumOf(I, name) == <<Total(I, name), 1>>
MeanOf(I, name) == <<Total(I, name), Cardinality(NonNull(I, name))>>
Additive(name) == name = "PRECIP" \/ name = "EVAP"
PolicyOf(I, name) == IF Additive(name) THEN SumOf(I, name) ELSE MeanOf(I, name)
SeasonOfMonth(m) ==
    CASE m \in {12, 1, 2} -> "Invierno"
      [] m \in {3, 4, 5} -> "Primavera"
      [] m \in {6, 7, 8} -> "Verano"
      [] OTHER -> "Otono"

\* the group of a record, and the label of an emitted row, in each mode
GroupIn(op, f) ==
    CASE op = "promedio-mensual" -> <<YearOf(f), MonthOf(f)>>
      [] op = "promedio-anual" -> <<YearOf(f)>>
      [] op = "estacional" -> <<YearOf(f), SeasonOfMonth(MonthOf(f))>>
      [] op = "ciclo-anual" -> <<MonthOf(f), DayOf(f)>>
      [] op = "ciclo-anual-mensual" -> <<MonthOf(f)>>
      [] OTHER -> <<SeasonOfMonth(MonthOf(f))>>
LabelIn(op, rec) ==
    CASE op = "promedio-mensual" -> rec.Fecha
      [] op = "promedio-anual" -> rec.Fecha
      [] op = "estacional" -> <<rec.Year, rec.Season>>
      [] op = "ciclo-anual" -> <<rec.month, rec.day>>
      [] op = "ciclo-anual-mensual" -> <<rec.Mes>>
      [] OTHER -> <<rec.Season>>
Members(op, g) == {i \in InRangeRecords : GroupIn(op, Series[i].Fecha) = g}
Groups(op) == {GroupIn(op, Series[i].Fecha) : i \in InRangeRecords}

\* exactly one emitted row per observed group, and no other row
OneRowPerGroup(op) ==
    /\ \A g \in Groups(op) :
           Cardinality({p \in 1 .. Len(resp.datos) : LabelIn(op, resp.datos[p]) = g}) = 1
    /\ \A p \in 1 .. Len(resp.datos) : LabelIn(op, resp.datos[p]) \in Groups(op)

\* every numeric column of the series is a variable of the result
AllNumericListed ==
    \A j \in 1 .. Len(SeriesVars) :
        (\A i \in 1 .. Len(Series) : Series[i].v[j] # Bad)
            => \E n \in 1 .. Len(resp.variables) : resp.variables[n] = SeriesVars[j]

SinglePassModes == {"promedio-mensual", "promedio-anual", "estacional"}

\* C1: in calendar-month, calendar-year and season mode there is exactly one
\* row per observed group (year-month, year, (calendar year, season)); in it
\* PRECIP and EVAP hold the sum of the group's in-range non-null values and
\* every other numeric variable their mean (to two decimals, null when there
\* is no value to average).
C1_SinglePassPolicy ==
    (Served /\ req.op \in SinglePassModes) =>
        /\ OneRowPerGroup(req.op)
        /\ AllNumericListed
        /\ \A p \in 1 .. Len(resp.datos), n \in 1 .. Len(resp.variables) :
               resp.datos[p].v[n] =
                   Round2(PolicyOf(Members(req.op, LabelIn(req.op, resp.datos[p])),
                                   resp.variables[n]))

\* a season row of an additive variable whose group holds a December and a
\* January record of one calendar year, both with a value
C1_Witness ==
    /\ Served /\ req.op = "estacional"
    /\ Len(resp.variables) = 1 /\ resp.variables[1] = "EVAP"
    /\ \E p \in 1 .. Len(resp.datos) :
           LET I == NonNull(Members("estacional", LabelIn("estacional", resp.datos[p])), "EVAP")
           IN  /\ \E i, k \in I : MonthOf(Series[i].Fecha) = 1 /\ MonthOf(Series[k].Fecha) = 12
               /\ resp.datos[p].v[1] > 2010

\* C2: in day-of-year mode there is exactly one row per observed (month, day)
\* and every numeric variable, PRECIP and EVAP included, holds the mean of the
\* in-range non-null values of that day over the years, never their sum.
C2_DayOfYearMean ==
    (Served /\ req.op = "ciclo-anual") =>
        /\ OneRowPerGroup("ciclo-anual")
        /\ AllNumericListed
        /\ \A p \in 1 .. Len(resp.datos), n \in 1 .. Len(resp.variables) :
               resp.datos[p].v[n] =
                   Round2(MeanOf(Members("ciclo-anual", LabelIn("ciclo-anual", resp.datos[p])),
                                 resp.variables[n]))

\* PRECIP on one (month, day) in two years with two different values
C2_Witness ==
    /\ Served /\ req.op = "ciclo-anual"
    /\ Len(resp.variables) = 1 /\ resp.variables[1] = "PRECIP"
    /\ \E p \in 1 .. Len(resp.datos) :
           LET I == NonNull(Members("ciclo-anual", LabelIn("ciclo-anual", resp.datos[p])), "PRECIP")
           IN  /\ \E i, k \in I : /\ YearOf(Series[i].Fecha) # YearOf(Series[k].Fecha)
                                  /\ Series[i].v[1] # Series[k].v[1]
               /\ resp.datos[p].v[1] = 1500


\* the mean of the non-null fractions fr[y], y in Y (null when there is none)
RECURSIVE AddAll(_, _)
AddAll(fr, Y) ==
    IF Y = {} THEN <<0, 1>>
    ELSE LET y == CHOOSE z \in Y : TRUE
             t == AddAll(fr, Y \ {y})
         IN  <<fr[y][1] * t[2] + t[1] * fr[y][2], fr[y][2] * t[2]>>
MeanOverYears(fr, Y) ==
    LET known == {y \in Y : fr[y][2] # 0}
        t == AddAll(fr, known)
    IN  <<t[1], t[2] * Cardinality(known)>>

YearsOf(I) == {YearOf(Series[i].Fecha) : i \in I}
InYear(I, y) == {i \in I : YearOf(Series[i].Fecha) = y}
\* one value per year: the policy over that year's records of the group
AcrossYears(I, name) ==
    MeanOverYears([y \in YearsOf(I) |-> PolicyOf(InYear(I, y), name)], YearsOf(I))

AcrossYearsModes == {"ciclo-anual-mensual", "ciclo-anual-estacional"}

\* C3: in month-across-years and season-across-years mode the row of a month
\* (season) holds the unweighted mean, over the years in which it is
\* observed, of that year's value for the month (season) under the policy
\* (sum for PRECIP and EVAP, mean for the rest): one value per year however
\* many days the year has.  A year whose mean is null (no value at all) gives
\* no value to average.
C3_TwoPassMean ==
    (Served /\ req.op \in AcrossYearsModes) =>
        /\ OneRowPerGroup(req.op)
        /\ \A p \in 1 .. Len(resp.datos), n \in 1 .. Len(resp.variables) :
               resp.datos[p].v[n] =
                   Round2(AcrossYears(Members(req.op, LabelIn(req.op, resp.datos[p])),
                                      resp.variables[n]))

\* a month seen on two days of one year and one day of another, where the mean
\* of the two yearly means (1.502 and 2.004) is not the mean of the three days
C3_Witness ==
    /\ Served /\ req.op = "ciclo-anual-mensual"
    /\ Len(resp.variables) = 1 /\ resp.variables[1] = "TMAX"
    /\ \E p \in 1 .. Len(resp.datos) :
           LET I == NonNull(Members(req.op, LabelIn(req.op, resp.datos[p])), "TMAX")
           IN  /\ Cardinality(I) = 3 /\ Cardinality(YearsOf(I)) = 2
               /\ resp.datos[p].v[1] = 1750
               /\ Round2(MeanOf(I, "TMAX")) = 1670


\* C4: once a request has loaded station s, the cache entry of s stays and is
\* the same object with the same content at every later step, whatever is
\* requested, and the loader never runs for s again.
C4_CacheEntryStable ==
    [][\A s \in DOMAIN STATION_DATA :
           /\ s \in DOMAIN STATION_DATA'
           /\ STATION_DATA'[s] = STATION_DATA[s]
           /\ stored'[s] = stored[s]
           /\ loads'[s] = loads[s]]_vars

\* s1 was loaded first, s2 after it, and an extreme-frequency request for s1 is
\* served from the entry of the first load
C4_Witness ==
    /\ DOMAIN STATION_DATA = {"s1", "s2"}
    /\ STATION_DATA["s1"].oid = 1 /\ STATION_DATA["s2"].oid = 2
    /\ req.id = "s1" /\ req.op = "extremos-frecuencia" /\ resp.kind = "ok"
    /\ loads["s1"] = 1

\* the p-th in-range record of the series, in the series' order
NthInRange(p) ==
    CHOOSE i \in InRangeRecords : Cardinality({k \in InRangeRecords : k < i}) = p - 1
KeptBy(datos, s, e) ==
    {i \in 1 .. Len(datos) : (s = NoDate \/ s <= datos[i].Fecha) /\ (e = NoDate \/ datos[i].Fecha <= e)}
NthOf(I, p) == CHOOSE i \in I : Cardinality({k \in I : k < i}) = p - 1
BoundsOf(datos) == {NoDate, D1, D2} \cup {datos[i].Fecha : i \in 1 .. Len(datos)}

\* C6: the filter returns exactly the records with start <= date <= end (each
\* bound only when present), in their original order, for every cached series
\* (the empty one included) and every pair of bounds; and the records of a
\* data response are those of the requested range.
C6_FilterInclusive ==
    /\ \A id \in DOMAIN STATION_DATA :
           LET datos == STATION_DATA[id].datos IN
           \A s \in BoundsOf(datos), e \in BoundsOf(datos) :
               LET out == filter_data_by_date(datos, s, e)
                   I == KeptBy(datos, s, e)
               IN  /\ Len(out) = Cardinality(I)
                   /\ \A p \in 1 .. Len(out) : out[p] = datos[NthOf(I, p)]
    /\ (Served /\ req.op = "datos") =>
           /\ Len(resp.datos) = Cardinality(InRangeRecords)
           /\ \A p \in 1 .. Len(resp.datos) :
                  /\ ParseFecha(resp.datos[p].Fecha) = Series[NthInRange(p)].Fecha
                  /\ resp.datos[p].v = Series[NthInRange(p)].v

\* a data response with a lower bound that keeps the record dated on the bound
\* and drops an earlier one
C6_Witness ==
    /\ Served /\ req.op = "datos" /\ req.start = D2 /\ req.end = NoDate
    /\ Len(Series) = 2 /\ Series[1].Fecha < D2
    /\ Len(resp.datos) = 1 /\ ParseFecha(resp.datos[1].Fecha) = D2

AggregationModes == SinglePassModes \cup AcrossYearsModes \cup {"ciclo-anual"}

\* C7: in each of the six modes, for a station whose file loads, a range that
\* holds no record gives the result {variables, records: []}: not an error and
\* not the no-data outcome.
C7_EmptyRangeWellFormed ==
    (resp # NoResp /\ req.op \in AggregationModes /\ files[req.id].kind = "csv") =>
        /\ req.id \in DOMAIN STATION_DATA
        /\ InRangeRecords = {} =>
               /\ resp.kind = "ok"
               /\ DOMAIN resp = {"kind", "variables", "datos"}
               /\ resp.datos = <<>>

\* start > end on a series that has records, in season-across-years mode
C7_Witness ==
    /\ Served /\ req.op = "ciclo-anual-estacional"
    /\ req.start = D2 /\ req.end = D1
    /\ Len(Series) > 0 /\ resp.datos = <<>>

\* a handler step that reaches the loader: a response other than the
\* parameter rejections 422 and 400, for an id not in the cache
LoaderRuns ==
    /\ resp = NoResp /\ resp' # NoResp
    /\ resp' \notin {Http(422), Http(400)}
    /\ req'.id \notin DOMAIN STATION_DATA

\* C8: when the id has no file, or its file lacks Fecha, or processing the file
\* fails, the request ends with the no-data outcome and nothing raised, the
\* cache and its log are as before, and the loader has run once more (so the
\* next request for the id runs it again).
C8_LoaderFailsSoft ==
    [][(LoaderRuns /\ files[req'.id].kind # "csv") =>
           /\ resp' \in {None, Http(404), EmptyResult}
           /\ STATION_DATA' = STATION_DATA
           /\ stored' = stored
           /\ loads' = [loads EXCEPT ![req'.id] = @ + 1]]_vars

\* the loader ran a second time for an id whose file lacks Fecha, while
\* another station sits in the cache
C8_Witness ==
    /\ files["s1"].kind = "nofecha" /\ loads["s1"] = 2
    /\ req.id = "s1" /\ resp = None
    /\ DOMAIN STATION_DATA = {"s2"}


\* both threads asked for id, both missed the cache, and both have returned
BothLoaded(t, u, id) ==
    /\ t # u
    /\ th[t].id = id /\ th[u].id = id
    /\ th[t].miss /\ th[u].miss
    /\ th[t].pc = "done" /\ th[u].pc = "done"

\* C5: nothing keeps two requests for one uncached id from both missing the
\* cache and both running the loader; when they do, the two callers hold
\* different station_data objects, the object stored later has replaced the one
\* stored earlier, and the cache holds the one entry for the id.
C5_DuplicateLoad ==
    \A t \in Threads, u \in Threads, id \in DOMAIN files :
        BothLoaded(t, u, id) =>
            /\ loads[id] = 2
            /\ th[t].full_data # th[u].full_data
            /\ stored[id] \in {<<th[t].full_data, th[u].full_data>>,
                               <<th[u].full_data, th[t].full_data>>}
            /\ id \in DOMAIN STATION_DATA
            /\ STATION_DATA[id].oid = stored[id][2]

\* two finished requests for s1 that both loaded it, where the object built
\* first was stored last and is the one the cache keeps
C5_Witness ==
    /\ BothLoaded("t1", "t2", "s1")
    /\ th["t1"].full_data = 1 /\ th["t2"].full_data = 2
    /\ stored["s1"] = <<2, 1>>
    /\ STATION_DATA["s1"].oid = 1


\* the in-range observations of the requested variable: a numeric value
Observations ==
    IF \E j \in 1 .. Len(SeriesVars) : SeriesVars[j] = req.variable
    THEN {i \in InRangeRecords : Series[i].v[ColOf(req.variable)] >= 0}
    ELSE {}
ValueOf(i) == Series[i].v[ColOf(req.variable)]
SameDay(i) ==
    {k \in Observations : /\ MonthOf(Series[k].Fecha) = MonthOf(Series[i].Fecha)
                          /\ DayOf(Series[k].Fecha) = DayOf(Series[i].Fecha)}
\* the k-th smallest value of the observations I, counted with repetitions
KthSmallest(I, k) ==
    CHOOSE x \in {ValueOf(i) : i \in I} :
        /\ Cardinality({i \in I : ValueOf(i) < x}) < k
        /\ Cardinality({i \in I : ValueOf(i) <= x}) >= k
\* the threshold of observation i's (month, day): the req.percentile-th
\* percentile of that day's in-range observations, interpolated linearly
\* between order statistics, to two decimals
ThresholdOf(i) ==
    LET I == SameDay(i)
        pos == (Cardinality(I) - 1) * req.percentile
        below == KthSmallest(I, pos \div 100 + 1)
        above == IF pos % 100 = 0 THEN below ELSE KthSmallest(I, pos \div 100 + 2)
    IN  Round2(<<100 * below + (pos % 100) * (above - below), 100>>)
IsEvent(i) ==
    IF req.operator = "greater" THEN ValueOf(i) > ThresholdOf(i) ELSE ValueOf(i) < ThresholdOf(i)
FrequencyAnswered ==
    /\ resp # NoResp /\ req.op = "extremos-frecuencia"
    /\ resp.kind # "http"
    /\ req.id \in DOMAIN STATION_DATA

\* C9: an extreme-frequency request over a range with an observation of the
\* variable is answered with exactly one record per calendar year that has
\* such an observation, whose frequency is the number of that year's
\* observations strictly above (greater) or strictly below (less) the
\* threshold of their own (month, day), 0 when there is none; a year without
\* observation has no record.
C9_YearlyFrequency ==
    FrequencyAnswered =>
        /\ Observations # {} => resp.kind = "ok"
        /\ resp.kind = "ok" =>
               /\ \A y \in YearsOf(Observations) :
                      Cardinality({p \in 1 .. Len(resp.datos) : resp.datos[p].Fecha = y}) = 1
               /\ \A p \in 1 .. Len(resp.datos) :
                      /\ resp.datos[p].Fecha \in YearsOf(Observations)
                      /\ resp.datos[p].frequency =
                             Cardinality({i \in InYear(Observations, resp.datos[p].Fecha) :
                                             IsEvent(i)})

\* three records in range: a year with one observation and no event, a year
\* with one event, and a record without value that counts for nothing
C9_Witness ==
    /\ FrequencyAnswered /\ resp.kind = "ok"
    /\ req.operator = "greater" /\ req.percentile = 50
    /\ Cardinality(InRangeRecords) = 3 /\ Cardinality(Observations) = 2
    /\ resp.datos = <<[Fecha |-> 2000, frequency |-> 0], [Fecha |-> 2001, frequency |-> 1]>>

\* C10: every result of the extreme-frequency computation for a loaded station
\* carries a trend, and the trend is non-empty exactly when the frequency
\* records cover at least two distinct years (an empty object with one year
\* or none).
C10_TrendCarried ==
    (FrequencyAnswered /\ resp.kind = "ok") =>
        /\ "trend" \in DOMAIN resp
        /\ (DOMAIN resp.trend # {}) <=>
               (Cardinality({resp.datos[p].Fecha : p \in 1 .. Len(resp.datos)}) >= 2)


\* a step that answers a request of route op
Answers(op) == resp = NoResp /\ resp' # NoResp /\ req'.op = op
CacheUntouched == UNCHANGED <<STATION_DATA, loads, stored, heap>>

\* C11: an extreme-frequency request whose operator is neither greater nor
\* less is refused as an invalid parameter (400, or 422 when its percentile is
\* out of range too), whatever the station, variable, percentile and range,
\* and the refusal comes before the loader runs or anything is computed: the
\* cache, its log and the loader-run counts are as before.
C11_OperatorRejected ==
    [][(Answers("extremos-frecuencia") /\ req'.operator \notin {"greater", "less"}) =>
           /\ resp' = (IF req'.percentile \in 0 .. 100 THEN Http(400) ELSE Http(422))
           /\ CacheUntouched]_vars

\* operator equal on a station without file: refused, and the loader never ran
C11_Witness ==
    /\ req.op = "extremos-frecuencia" /\ req.operator = "equal" /\ req.id = "s1"
    /\ req.percentile = 50
    /\ files["s1"].kind = "missing" /\ loads["s1"] = 0
    /\ resp = Http(400)

\* C12: a percentile or extreme-frequency request whose percentile is outside
\* 0..100 is refused as an invalid parameter (422) for every station, variable
\* and range; no threshold or frequency is produced and the loader does not run.
C12_PercentileRejected ==
    [][((Answers("percentiles-diarios") \/ Answers("extremos-frecuencia"))
            /\ req'.percentile \notin 0 .. 100) =>
           /\ resp' = Http(422)
           /\ CacheUntouched]_vars

\* percentile 101 on a cached station that has observations of the variable
C12_Witness ==
    /\ req.op = "percentiles-diarios" /\ req.percentile = 101 /\ req.variable = "PRECIP"
    /\ req.id \in DOMAIN STATION_DATA
    /\ \E i \in 1 .. Len(Series) : Series[i].v[1] >= 0
    /\ resp = Http(422)


PercentilesAnswered ==
    /\ resp # NoResp /\ req.op = "percentiles-diarios"
    /\ resp.kind # "http"
    /\ req.id \in DOMAIN STATION_DATA
OnDayOf(rec, i) ==
    rec.month = MonthOf(Series[i].Fecha) /\ rec.day = DayOf(Series[i].Fecha)
\* the thresholds of a result are those of the days that hold an observation
ThresholdsFromObservations ==
    /\ \A i \in Observations :
           Cardinality({p \in 1 .. Len(resp.datos) : OnDayOf(resp.datos[p], i)}) = 1
    /\ \A p \in 1 .. Len(resp.datos) :
           \E i \in Observations :
               OnDayOf(resp.datos[p], i) /\ resp.datos[p].p = ThresholdOf(i)

\* C13: a percentile request for a loaded station is answered with a result
\* whose thresholds come from the in-range numeric observations alone: one
\* threshold per (month, day) that holds such an observation and none for any
\* other day, each the quantile of that day's observations (null and text
\* cells count for nothing); with the variable absent or no record in range
\* the answer is the empty result; in no case an error.
C13_ThresholdsOnlyFromNumeric ==
    PercentilesAnswered =>
        /\ resp.kind = "ok"
        /\ ThresholdsFromObservations
        /\ (~HasCol(SeriesVars, req.variable) \/ InRangeRecords = {}) => resp = EmptyResult


\* a Fecha text that is a day of the calendar, written day/month/year
IsCalendarDay(t) ==
    /\ Len(t) = 3
    /\ t[2] \in 1 .. 12
    /\ t[1] \in 1 .. DaysIn(t[3], t[2])
DateOfText(t) == t[3] * 10000 + t[2] * 100 + t[1]
\* the file's cells of a cached record (derived columns come after them)
FileCells(rec, n) == SubSeq(rec.v, 1, n)

\* C14: every cached series is in non-decreasing date order and holds exactly
\* the rows of its file whose Fecha is a calendar day, each as often as the
\* file holds it: rows with another Fecha text (an entirely empty row is one)
\* are left out without failing the load, rows with equal dates all stay.
C14_SeriesSortedAndComplete ==
    \A id \in DOMAIN STATION_DATA :
        LET datos == STATION_DATA[id].datos
            rows == files[id].rows
            n == Len(files[id].cols)
            keep == {i \in 1 .. Len(rows) : IsCalendarDay(rows[i].Fecha)}
        IN  /\ \A p \in 1 .. Len(datos) - 1 : datos[p].Fecha <= datos[p + 1].Fecha
            /\ Len(datos) = Cardinality(keep)
            /\ \A i \in keep :
                   Cardinality({p \in 1 .. Len(datos) :
                                   /\ datos[p].Fecha = DateOfText(rows[i].Fecha)
                                   /\ FileCells(datos[p], n) = rows[i].v})
                       = Cardinality({k \in keep : rows[k] = rows[i]})

\* a three-row file, latest day first, then 31/02/2000, then an earlier day:
\* the cached series holds the two calendar days, earlier first
C14_Witness ==
    /\ "s1" \in DOMAIN STATION_DATA
    /\ Len(files["s1"].rows) = 3
    /\ files["s1"].rows[1].Fecha = <<1, 12, 2000>>
    /\ files["s1"].rows[2].Fecha = <<31, 2, 2000>>
    /\ files["s1"].rows[3].Fecha = <<2, 3, 2000>>
    /\ Len(STATION_DATA["s1"].datos) = 2
    /\ STATION_DATA["s1"].datos[1].Fecha = MkDate(2000, 3, 2)
    /\ STATION_DATA["s1"].datos[2].Fecha = MkDate(2000, 12, 1)


\* the place of a season in the display order Spring, Summer, Autumn, Winter
DisplayRank(s) ==
    CASE s = "Primavera" -> 1 [] s = "Verano" -> 2 [] s = "Otono" -> 3 [] s = "Invierno" -> 4

\* C15: the records of season-across-years mode come in the display order
\* Primavera, Verano, Otono, Invierno, restricted to the seasons observed.
C15_SeasonCycleDisplayOrder ==
    (Served /\ req.op = "ciclo-anual-estacional") =>
        \A p \in 1 .. Len(resp.datos) - 1 :
            DisplayRank(resp.datos[p].Season) < DisplayRank(resp.datos[p + 1].Season)

\* C16: the records of season mode are sorted by year ascending and, within a
\* year, in the display order Primavera, Verano, Otono, Invierno.
C16_SeasonalSortedByYearThenSeason ==
    (Served /\ req.op = "estacional") =>
        \A p \in 1 .. Len(resp.datos) - 1 :
            \/ resp.datos[p].Year < resp.datos[p + 1].Year
            \/ /\ resp.datos[p].Year = resp.datos[p + 1].Year
               /\ DisplayRank(resp.datos[p].Season) < DisplayRank(resp.datos[p + 1].Season)

\* a series that starts in January 2000 and goes on to March 2000 and to 2001:
\* the spring of 2000 comes first, its winter second, the next year last
C16_Witness ==
    /\ Served /\ req.op = "estacional"
    /\ Len(Series) = 3 /\ MonthOf(Series[1].Fecha) = 1 /\ MonthOf(Series[2].Fecha) = 3
    /\ Len(resp.datos) = 3
    /\ resp.datos[1].Year = 2000 /\ resp.datos[1].Season = "Primavera"
    /\ resp.datos[2].Year = 2000 /\ resp.datos[2].Season = "Invierno"
    /\ resp.datos[3].Year = 2001


\* a column of the series is numeric-typed when none of its cells is text: a
\* column the file holds as text counts only if the series has rows and every
\* cell of the column in it is empty
NumericTyped(j) ==
    \/ j \notin STATION_DATA[req.id].text
    \/ Series # <<>> /\ \A i \in 1 .. Len(Series) : Series[i].v[j] = Null

\* C17: in each of the six modes and for every range the variables of the
\* result are the numeric-typed columns of the series, whether the series has
\* records in range, has none in range, or has no row at all.
C17_VariablesAreNumericColumns ==
    (Served /\ req.op \in AggregationModes) =>
        {resp.variables[n] : n \in 1 .. Len(resp.variables)}
            = {SeriesVars[j] : j \in {k \in 1 .. Len(SeriesVars) : NumericTyped(k)}}


\* C18: with operator greater at percentile 100 and with operator less at
\* percentile 0 no observation is an extreme event: every reported year has
\* frequency 0, whatever decimals the raw values carry.
C18_NoEventAtExtremePercentile ==
    (FrequencyAnswered /\ resp.kind = "ok"
        /\ \/ req.operator = "greater" /\ req.percentile = 100
           \/ req.operator = "less" /\ req.percentile = 0) =>
        \A p \in 1 .. Len(resp.datos) : resp.datos[p].frequency = 0

\* the records of the group of emitted row p, and those with a value of name
RowMembers(p) == Members(req.op, LabelIn(req.op, resp.datos[p]))
AllNull(p, name) == NonNull(RowMembers(p), name) = {}

\* C19: a group in which every value of a variable is null gives 0 under the
\* sum policy (PRECIP, EVAP) and null under the mean policy, in calendar-
\* month, calendar-year and season mode; in the across-years modes such a
\* (year, month) or (year, season) of an additive variable enters the mean
\* over the years as 0: the row holds the total of the values divided by the
\* number of years in which the month (season) has a record, not by the
\* number of years in which it has a value.
C19_AllNullSumIsZero ==
    /\ (Served /\ req.op \in SinglePassModes) =>
           \A p \in 1 .. Len(resp.datos), n \in 1 .. Len(resp.variables) :
               AllNull(p, resp.variables[n]) =>
                   resp.datos[p].v[n] = (IF Additive(resp.variables[n]) THEN 0 ELSE Null)
    /\ (Served /\ req.op \in AcrossYearsModes) =>
           \A p \in 1 .. Len(resp.datos), n \in 1 .. Len(resp.variables) :
               Additive(resp.variables[n]) =>
                   resp.datos[p].v[n] =
                       Round2(<<Total(RowMembers(p), resp.variables[n]),
                                Cardinality(YearsOf(RowMembers(p)))>>)

\* month-across-years of PRECIP: January has only an empty cell in 2000 and the
\* value 1.0 in 2001, and the row holds 0.5, the mean of 0 and 1.0
C19_Witness ==
    /\ Served /\ req.op = "ciclo-anual-mensual"
    /\ resp.variables = <<"PRECIP">>
    /\ \E p \in 1 .. Len(resp.datos) :
           /\ resp.datos[p].Mes = 1
           /\ YearsOf(RowMembers(p)) = {2000, 2001}
           /\ YearsOf(NonNull(RowMembers(p), "PRECIP")) = {2001}
           /\ Total(RowMembers(p), "PRECIP") = 1000
           /\ resp.datos[p].v[1] = 500


====
